---- MODULE Spec2Model ----
(***************************************************************************)
(* A model of the FICS Ansible collection: six task modules that call the  *)
(* mortgage-servicing gateway, audit the call in api_calls.log and write   *)
(* the returned base64 documents to destination files.                     *)
(*                                                                         *)
(* One behaviour is one invocation of one task (run_module), from the      *)
(* moment its parameters are read to the moment the process ends.          *)
(***************************************************************************)
EXTENDS Integers, Sequences, FiniteSets, TLC

VARIABLES
    task,               \* the module being run
    method,             \* the verb handed to call_api
    api_token,          \* module.params["api_token"]
    dest,               \* module.params["dest"]
    summary_dest,       \* module.params["summary_dest"] (run_late_notices_report)
    api_log_directory,  \* module.params["api_log_directory"]
    pc,                 \* position of the invocation
    callNo,             \* which gateway call of run_module is in progress
    dirs,               \* filesystem: the directories that exist
    files,              \* filesystem: regular file path -> content
    dirs0,              \* dirs when the invocation started
    files0,             \* files when the invocation started
    log,                \* records appended to api_calls.log by this invocation
    handlers,           \* handlers attached to logging.getLogger("call_api")
    open_handles,       \* open file objects on api_calls.log in the process
    requests,           \* endpoints of the HTTP requests sent, in order
    responses,          \* the gateway's answers to the requests, in order
    ret,                \* value returned by the last call_api
    exc,                \* exception in flight
    queue,              \* documents still to be written: <<[path, b64]>>
    opened,             \* destination paths opened "wb" by this invocation
    wrote,              \* destination paths fully written by this invocation
    faulted,            \* destination paths whose write() the system cut short
    result,             \* run_module's result dict
    outcome,            \* how the process ended
    reported,           \* the dict handed to exit_json / fail_json
    peer                \* a second invocation writing the same dest

vars == <<task, method, api_token, dest, summary_dest, api_log_directory, pc,
          callNo, dirs, files, dirs0, files0, log, handlers, open_handles,
          requests, responses, ret, exc, queue, opened, wrote, faulted,
          result, outcome, reported, peer>>

(***************************************************************************)
(* Python values                                                           *)
(***************************************************************************)
PyNone == [kind |-> "None"]

EmptyDict == [kind |-> "empty"]

\* a key that the dict does not hold
Absent == <<-1>>

\* JSON values seen at the key ApiCallSuccessful: true, false, null, a
\* non-empty string such as "false", or no key at all.
AcsValues == {"true", "false", "null", "string", "absent"}

\* Python truthiness, as tested by `if resp.get("ApiCallSuccessful", None):`
Truthy(v) == v \in {"true", "string"}

(***************************************************************************)
(* base64: a text is a sequence of characters, each character given by its *)
(* value in the base64 alphabet (0..63), the pad character '=' or a        *)
(* character outside the alphabet.                                         *)
(***************************************************************************)
BASE64_PAD == 64

DecodeError == <<-1>>

RECURSIVE a2b_base64(_, _, _, _, _, _)
a2b_base64(s, i, quad_pos, leftchar, pads, out) ==
    IF i > Len(s)
    THEN IF quad_pos # 0 THEN DecodeError ELSE out
    ELSE LET c == s[i] IN
         IF c = BASE64_PAD
         THEN IF quad_pos >= 2 /\ quad_pos + pads + 1 >= 4
              THEN out
              ELSE a2b_base64(s, i + 1, quad_pos, leftchar,
                              IF quad_pos >= 2 THEN pads + 1 ELSE pads, out)
         ELSE IF c > BASE64_PAD
         THEN a2b_base64(s, i + 1, quad_pos, leftchar, pads, out)
         ELSE CASE quad_pos = 0 ->
                     a2b_base64(s, i + 1, 1, c, 0, out)
                [] quad_pos = 1 ->
                     a2b_base64(s, i + 1, 2, c % 16, 0,
                                Append(out, leftchar * 4 + c \div 16))
                [] quad_pos = 2 ->
                     a2b_base64(s, i + 1, 3, c % 4, 0,
                                Append(out, leftchar * 16 + c \div 4))
                [] OTHER ->
                     a2b_base64(s, i + 1, 0, 0, 0,
                                Append(out, leftchar * 64 + c))

\* base64.b64decode(s) with validate=False
b64decode(s) == a2b_base64(s, 1, 0, 0, 0, <<>>)

\* "aGk=" is b"hi"
DocHi == <<26, 6, 36, 64>>

\* "aGVsbG8=" is b"hello"
DocHello == <<26, 6, 21, 44, 27, 6, 60, 64>>

\* "aGk": incorrect padding
DocBadPadding == <<26, 6, 36>>

\* "!!aGk=": characters outside the alphabet are discarded
DocJunk == <<65, 65, 26, 6, 36, 64>>

\* the values the gateway may put at a document field
DocValues == {Absent, <<>>, DocHi, DocHello, DocBadPadding, DocJunk}

\* `if base64_file:` a missing key gives None, and "" is falsy
DocTruthy(d) == d # Absent /\ d # <<>>

(***************************************************************************)
(* Paths and the filesystem.  A path is the sequence of its components     *)
(* after the leading "/"; a trailing "/" leaves an empty last component.   *)
(***************************************************************************)
Root == <<>>

\* the kernel's view of a path: empty components name nothing
normpath(p) == SelectSeq(p, LAMBDA c : c # "")

\* os.path.dirname: everything before the last "/"
dirname(p) == IF Len(p) = 0 THEN p ELSE SubSeq(p, 1, Len(p) - 1)

\* os.path.join(a, b) for a relative b and f"{a}/{b}"
join(a, b) == normpath(a) \o <<b>>

Prefixes(p) == {SubSeq(p, 1, n) : n \in 0..Len(p)}

\* os.makedirs(d, exist_ok=True) raises when a component is a regular file
makedirs_ok(d, fs_files) == Prefixes(normpath(d)) \cap DOMAIN fs_files = {}

makedirs(d, fs_dirs) == fs_dirs \cup Prefixes(normpath(d))

\* open(p, "wb") / open(p, "a") succeed when the parent is a directory and
\* p names a file position that is not itself a directory
open_ok(p, fs_dirs) ==
    /\ Len(p) > 0
    /\ p[Len(p)] # ""
    /\ normpath(dirname(p)) \in fs_dirs
    /\ normpath(p) \notin fs_dirs

\* open(p, "ab") and write: c lands after what the file held
put_append(fs_files, p, c) ==
    [q \in DOMAIN fs_files \cup {normpath(p)} |->
        IF q # normpath(p) THEN fs_files[q]
        ELSE IF q \in DOMAIN fs_files THEN fs_files[q] \o c ELSE c]

\* the file at path p holds content c afterwards
put(fs_files, p, c) ==
    [q \in DOMAIN fs_files \cup {normpath(p)} |->
        IF q = normpath(p) THEN c ELSE fs_files[q]]

\* txt_file.write(c) and the flush when the with block is left, on a file
\* object opened "wb": the bytes land at the object's own position 0, over
\* whatever the file holds by then
write(fs_files, p, c) ==
    LET old == IF normpath(p) \in DOMAIN fs_files
               THEN fs_files[normpath(p)]
               ELSE <<>>
    IN  put(fs_files, p,
            IF Len(old) > Len(c)
            THEN c \o SubSeq(old, Len(c) + 1, Len(old))
            ELSE c)

(***************************************************************************)
(* The six tasks                                                           *)
(***************************************************************************)
Trial == "get_trial_balance_report"

Payoff == "process_window_object_data"

LateNotices == "run_late_notices_report"

Allied == "allied_insurance_interface_program"

Selector == "get_advanced_selector_request"

Metro2 == "create_metro_2_file_and_report"

Tasks == {Trial, Payoff, LateNotices, Allied, Selector, Metro2}

\* the tasks whose gateway call goes through log_function_call
UsesLogger(t) == t # Allied

\* the tasks whose call_api is handed the module and calls module.fail_json
CallApiHasModule(t) == t \in {Allied, Metro2}

\* the tasks that write a document to a destination
FileProducing == {Trial, Payoff, LateNotices, Allied}

\* the endpoint each call of a task posts to
Endpoint(t, n) ==
    CASE t = Trial -> "GetTrialBalanceReport"
      [] t = Payoff -> "ProcessWindowObjectData"
      [] t = LateNotices -> "RunLateNoticesReport"
      [] t = Allied -> "CreateAlliedInsuranceInterfaceFile"
      [] t = Selector -> "GetAdvancedSelectorRequest"
      [] OTHER -> IF n = 1 THEN "GetMsCompanyInformation"
                  ELSE "CreateMetro2FileAndReport"

(***************************************************************************)
(* The gateway                                                             *)
(***************************************************************************)
HTTP_OK == 200

\* one status that is 200 and two that are not
StatusCodes == {HTTP_OK, 404, 500}

Envelope(a, d, d2, fp, c) ==
    [kind |-> "dict", acs |-> a, doc |-> d, doc2 |-> d2, filePath |-> fp,
     containers |-> c]

\* The JSON bodies the gateway may answer call n of task t with.  doc is the
\* value at the task's document path, doc2 the value at
\* LateNoticeSummaryReport.Document.DocumentBase64, filePath whether the key
\* FilePath is there, containers whether the keys Document and Data are.
Envelopes(t, n) ==
    CASE t \in {Trial, Payoff, Allied} ->
            {Envelope(a, d, Absent, FALSE, d # Absent) :
                a \in AcsValues, d \in DocValues}
      [] t = LateNotices ->
            {Envelope(a, d, d2, FALSE, d # Absent) :
                a \in AcsValues, d \in DocValues, d2 \in DocValues}
      [] t = Selector ->
            {Envelope(a, Absent, Absent, FALSE, FALSE) : a \in AcsValues}
      [] OTHER ->
            IF n = 1
            THEN {Envelope(a, Absent, Absent, fp, FALSE) :
                    a \in AcsValues, fp \in BOOLEAN}
            ELSE {Envelope(a, IF c THEN DocHi ELSE Absent, Absent, FALSE, c) :
                    a \in AcsValues, c \in BOOLEAN}

\* what a request can meet: a transport failure, or a status and a body
GatewayOutcomes(t, n) ==
    {[kind |-> "error"]}
    \cup {[kind |-> "http", status |-> s, body |-> e] :
            s \in StatusCodes, e \in Envelopes(t, n)}

(***************************************************************************)
(* Parameters and the filesystem the invocation starts in                  *)
(***************************************************************************)
\* module.params["api_log_directory"] when the option is omitted
LogDirOmitted == <<"<None>">>

LogDirs == {<<"logs", "">>, <<"logs">>, LogDirOmitted}

\* the name process_window_object_data builds for its file
FileName == "payoff_statement.pdf"

DestChoices(t) ==
    CASE t \in {Trial, LateNotices, Allied} ->
            {<<"out", "report">>, <<"new", "sub", "report">>}
      [] t = Payoff -> {<<"out">>, <<"out", "">>, <<"new", "sub">>}
      [] OTHER -> {Root}

SummaryChoices(t, d) ==
    IF t = LateNotices
    THEN {join(dirname(d), "summary"), <<"sum", "summary">>}
    ELSE {Root}

\* the length of a file left by an earlier run
OldLen == 3

\* the bytes of a file left by an earlier run
OldContent == [i \in 1..OldLen |-> i]

NoFiles == [q \in {} |-> <<>>]

\* nothing, an earlier report at each destination, or a regular file where
\* a parent directory is wanted
InitialFiles(t, d) ==
    LET target == IF t = Payoff THEN join(d, FileName) ELSE normpath(d) IN
    {NoFiles, put(NoFiles, <<"new">>, OldContent)}
    \cup (IF t \in FileProducing
          THEN {put(NoFiles, target, OldContent)}
          ELSE {})

InitialDirs == {{Root, <<"out">>}, {Root, <<"out">>, <<"logs">>}}

(***************************************************************************)
(* Results and exceptions                                                  *)
(***************************************************************************)
\* a key that was not passed to fail_json
AbsentKey == [kind |-> "absent"]

NoReport == [kind |-> "none"]

Msg(t) == [text |-> t, status |-> 0, body |-> AbsentKey]

\* f"Error response code ({response.status_code}) from api call: {response.text}"
ErrorResponseMsg(r) ==
    [text |-> "Error response code", status |-> r.status, body |-> r.body]

NoExc == [type |-> "none", msg |-> ""]

Exc(t, m) == [type |-> t, msg |-> m]

\* raised by sys.exit(1) inside module.fail_json: not a subclass of Exception
SystemExit == Exc("SystemExit", "1")

\* result = dict(changed=False, msg="", failed=False, api_response={})
InitialResult ==
    [changed |-> FALSE, msg |-> Msg(""), failed |-> FALSE,
     api_response |-> EmptyDict]

\* the tokens a playbook may hand the task
Tokens == {"token-A", "token-B"}

\* the verbs call_api knows
SupportedVerbs == {"post", "get", "put", "delete"}

\* every task hands call_api the verb "post"
TaskVerbs == {"post"}

\* the state after the parameters are read, the verb being one of verbs
Start(verbs) ==
    /\ task \in Tasks
    /\ method \in verbs
    /\ api_token \in Tokens
    /\ dest \in DestChoices(task)
    /\ summary_dest \in SummaryChoices(task, dest)
    /\ api_log_directory \in (IF UsesLogger(task) THEN LogDirs ELSE {LogDirOmitted})
    /\ pc = "start"
    /\ callNo = 1
    /\ dirs \in InitialDirs
    /\ files \in InitialFiles(task, dest)
    /\ dirs0 = dirs
    /\ files0 = files
    /\ log = <<>>
    /\ handlers = 0
    /\ open_handles = 0
    /\ requests = <<>>
    /\ responses = <<>>
    /\ ret = PyNone
    /\ exc = NoExc
    /\ queue = <<>>
    /\ opened = {}
    /\ wrote = {}
    /\ faulted = {}
    /\ result = InitialResult
    /\ outcome = "running"
    /\ reported = NoReport

\* no second invocation
NoPeer == [pc |-> "absent", txt_data |-> <<>>]

Init ==
    /\ Start(TaskVerbs)
    /\ peer = NoPeer

(***************************************************************************)
(* How a process ends                                                      *)
(***************************************************************************)
\* module.exit_json(**result)
exit_json(r) ==
    /\ outcome' = "exit_json"
    /\ reported' = r
    /\ pc' = "done"

\* module.fail_json(msg=m, changed=False, failed=True[, api_response=api])
fail_json(m, api) ==
    /\ outcome' = "fail_json"
    /\ reported' = [changed |-> FALSE, msg |-> m, failed |-> TRUE,
                    api_response |-> api]
    /\ pc' = "done"

\* an exception nothing catches: the interpreter prints a traceback
uncaught(e) ==
    /\ outcome' = "uncaught"
    /\ exc' = e
    /\ reported' = reported
    /\ pc' = "done"

(***************************************************************************)
(* allied_insurance_interface_program makes the parent directories of dest *)
(* before it calls the gateway.                                            *)
(***************************************************************************)
makedirs_dest ==
    /\ pc = "start"
    /\ task = Allied
    /\ IF makedirs_ok(dirname(dest), files)
       THEN /\ dirs' = makedirs(dirname(dest), dirs)
            /\ pc' = "call"
            /\ UNCHANGED <<outcome, reported>>
       ELSE /\ fail_json(Msg("failed to create parent directories"), AbsentKey)
            /\ UNCHANGED dirs
    /\ UNCHANGED <<peer, task, method, api_token, dest, summary_dest,
                   api_log_directory, faulted, callNo, files, dirs0, files0,
                   log, handlers, open_handles, requests, responses, ret,
                   exc, queue, opened, wrote, result>>

(***************************************************************************)
(* log_function_call, up to the call of the wrapped function               *)
(***************************************************************************)
\* a record that does not show the token
NoToken == "<none>"

\* the Kwargs record, had the logger masked the token
kwargs_token_masked(tok) == "********"

\* f"Kwargs: {kwargs}": the repr of parameters, Token included as it is
kwargs_token(tok) == tok

LogRecord(level, text, v) ==
    [level |-> level, name |-> "call_api", text |-> text, call |-> callNo,
     token |-> (IF text = "Kwargs" THEN kwargs_token(api_token) ELSE NoToken),
     value |-> v]

\* a record reaches the file once per handler attached to the logger
Emit(l, rec, n) == l \o [i \in 1..n |-> rec]

\* logger.info(Calling), logger.info(Args), logger.info(Kwargs)
BeforeRecords(l, n) ==
    Emit(Emit(Emit(l, LogRecord("INFO", "Calling", EmptyDict), n),
              LogRecord("INFO", "Args", EmptyDict), n),
         LogRecord("INFO", "Kwargs", EmptyDict), n)

log_function_call_enter ==
    /\ pc = "start"
    /\ UsesLogger(task)
    /\ IF api_log_directory = LogDirOmitted
       THEN \* os.path.dirname(None)
            /\ uncaught(Exc("TypeError", "expected str, not NoneType"))
            /\ UNCHANGED <<dirs, log, handlers, open_handles>>
       ELSE IF ~makedirs_ok(dirname(api_log_directory), files)
       THEN /\ uncaught(Exc("FileExistsError", "makedirs"))
            /\ UNCHANGED <<dirs, log, handlers, open_handles>>
       ELSE /\ dirs' = makedirs(dirname(api_log_directory), dirs)
            /\ IF open_ok(join(api_log_directory, "api_calls.log"), dirs')
               THEN /\ open_handles' = open_handles + 1
                    /\ handlers' = handlers + 1
                    /\ log' = BeforeRecords(log, handlers')
                    /\ pc' = "call"
                    /\ UNCHANGED <<outcome, reported, exc>>
               ELSE \* logging.FileHandler opens the file when it is made
                    /\ uncaught(Exc("FileNotFoundError", "api_calls.log"))
                    /\ UNCHANGED <<log, handlers, open_handles>>
    /\ UNCHANGED <<peer, task, method, api_token, dest, summary_dest,
                   api_log_directory, faulted, callNo, files, dirs0, files0,
                   requests, responses, ret, queue, opened, wrote, result>>

(***************************************************************************)
(* call_api: one request, and what the status makes of the answer          *)
(***************************************************************************)
\* what call_api does with a response: return a value, or module.fail_json
call_api_outcome(t, r) ==
    IF r.status = HTTP_OK
    THEN [kind |-> "return", value |-> r.body]
    ELSE IF CallApiHasModule(t)
    THEN [kind |-> "fail_json", msg |-> ErrorResponseMsg(r)]
    ELSE [kind |-> "return", value |-> PyNone]

\* an unknown verb, had call_api fallen back to sending the request
sends_request_whatever(m) == TRUE

\* `http[method]` and the if/elif chain: a request is made for these verbs
sends_request(m) == m \in SupportedVerbs

\* an exception leaves call_api
raise_in_call_api(e) ==
    IF UsesLogger(task)
    THEN /\ exc' = e
         /\ pc' = "log_exit"
         /\ UNCHANGED <<outcome, reported>>
    ELSE uncaught(e)

\* module.fail_json(msg=m, changed=False, failed=True) inside call_api
fail_json_in_call_api(m) ==
    IF UsesLogger(task)
    THEN \* sys.exit unwinds through log_function_call
         /\ reported' = [changed |-> FALSE, msg |-> m, failed |-> TRUE,
                         api_response |-> AbsentKey]
         /\ exc' = SystemExit
         /\ pc' = "log_exit"
         /\ UNCHANGED outcome
    ELSE /\ fail_json(m, AbsentKey)
         /\ UNCHANGED exc

call_api ==
    /\ pc = "call"
    /\ IF ~sends_request(method)
       THEN \* nothing is sent
            /\ UNCHANGED <<requests, responses, ret>>
            /\ IF CallApiHasModule(task)
               THEN fail_json_in_call_api(Msg("Invalid API method"))
               ELSE raise_in_call_api(Exc("KeyError", method))
       ELSE /\ requests' = Append(requests, Endpoint(task, callNo))
            /\ \E o \in GatewayOutcomes(task, callNo) :
                IF o.kind = "error"
                THEN \* requests raises ConnectionError
                     /\ UNCHANGED <<responses, ret>>
                     /\ raise_in_call_api(Exc("ConnectionError",
                                              "gateway unreachable"))
                ELSE /\ responses' = Append(responses, o)
                     /\ LET c == call_api_outcome(task, o) IN
                        IF c.kind = "return"
                        THEN /\ ret' = c.value
                             /\ pc' = IF UsesLogger(task) THEN "log_exit"
                                      ELSE "response"
                             /\ UNCHANGED <<outcome, reported, exc>>
                        ELSE /\ ret' = ret
                             /\ fail_json_in_call_api(c.msg)
    /\ UNCHANGED <<peer, task, method, api_token, dest, summary_dest,
                   api_log_directory, faulted, callNo, dirs, files, dirs0,
                   files0, log, handlers, open_handles, queue, opened, wrote,
                   result>>

(***************************************************************************)
(* log_function_call, after the wrapped function returned or raised        *)
(***************************************************************************)
\* `except Exception` catches everything but SystemExit and its kin
IsException(e) == e.type \notin {"none", "SystemExit"}

\* removeHandler, had it been at the end of the try and except blocks: a
\* SystemExit passes both
removeHandler_unless_exit(h, e) == IF e = SystemExit THEN h ELSE h - 1

\* finally: logger.removeHandler(handler), whatever e leaves the try block
removeHandler(h, e) == h - 1

\* Nothing closes the FileHandler: its stream is closed when the handler is
\* garbage, that is when the frame of log_function_call is.  After a return
\* the frame is freed at once; an exception keeps the frame in its traceback
\* for as long as the exception lives.
handles_after_exit(n, e) == IF e = NoExc THEN n - 1 ELSE n

log_function_call_exit ==
    /\ pc = "log_exit"
    /\ handlers' = removeHandler(handlers, exc)
    /\ open_handles' = handles_after_exit(open_handles, exc)
    /\ IF exc = NoExc
       THEN /\ log' = Emit(log, LogRecord("INFO", "Result", ret), handlers)
            /\ pc' = "response"
            /\ UNCHANGED <<outcome, reported, exc>>
       ELSE IF IsException(exc)
       THEN /\ log' = Emit(log, LogRecord("ERROR", "Exception occurred", exc),
                           handlers)
            /\ uncaught(exc)
       ELSE /\ outcome' = "fail_json"
            /\ pc' = "done"
            /\ UNCHANGED <<log, reported, exc>>
    /\ UNCHANGED <<peer, task, method, api_token, dest, summary_dest,
                   api_log_directory, faulted, callNo, dirs, files, dirs0,
                   files0, requests, responses, ret, queue, opened, wrote,
                   result>>

(***************************************************************************)
(* run_module, from the value of the gateway call to the first open() or   *)
(* to the reported result                                                  *)
(***************************************************************************)
Item(p, d) == [path |-> p, b64 |-> d]

\* the four values create_metro_2_file_and_report overwrites
REDACTED == <<-2>>

Redact(e) == [e EXCEPT !.doc = REDACTED]

\* Documents, had every task written a second file beside dest
Documents_pair(t, e) ==
    <<Item(dest, e.doc), Item(join(dirname(dest), "summary"), e.doc)>>

\* the documents a task takes from a successful envelope, with their paths
Documents(t, e) ==
    CASE t = LateNotices -> <<Item(dest, e.doc), Item(summary_dest, e.doc2)>>
      [] t = Payoff -> <<Item(join(dest, FileName), e.doc)>>
      [] OTHER -> <<Item(dest, e.doc)>>

\* `if base64_file:` / `if base64_late_notices_file and base64_late_notice_summary_file:`
AllDocsTruthy(t, e) ==
    \A i \in 1..Len(Documents(t, e)) : DocTruthy(Documents(t, e)[i].b64)

MissingMsg(t) ==
    CASE t = Trial -> Msg("no report file found in api response!")
      [] t = LateNotices -> Msg("One or more files missing from api response!")
      [] OTHER -> Msg("no file retrieved")

\* MissingResult, had it been written to report a change
MissingResult_changed(t, r, e) ==
    [r EXCEPT !.changed = TRUE, !.failed = (t # Allied), !.msg = MissingMsg(t),
              !.api_response = e]

\* the result when a document is missing: a failure in two tasks, a plain
\* "no file retrieved" in allied_insurance_interface_program
MissingResult(t, r, e) ==
    IF t = Allied
    THEN [r EXCEPT !.changed = FALSE, !.failed = FALSE, !.msg = MissingMsg(t),
                   !.api_response = e]
    ELSE [r EXCEPT !.failed = TRUE, !.msg = MissingMsg(t), !.api_response = e]

\* get_trial_balance_report and run_late_notices_report: one try block
\* around the whole of the processing
response_guarded ==
    IF ret = PyNone
    THEN \* None.get raises AttributeError, caught by `except Exception`
         /\ fail_json(Msg("failed to create file"), AbsentKey)
         /\ UNCHANGED <<dirs, queue, result, exc, callNo>>
    ELSE IF ~Truthy(ret.acs)
    THEN /\ fail_json(Msg("API call unsuccessful"), ret)
         /\ UNCHANGED <<dirs, queue, result, exc, callNo>>
    ELSE IF ~makedirs_ok(dirname(dest), files)
    THEN /\ fail_json(Msg("failed to create parent directories"), AbsentKey)
         /\ UNCHANGED <<dirs, queue, result, exc, callNo>>
    ELSE /\ dirs' = makedirs(dirname(dest), dirs)
         /\ UNCHANGED <<exc, callNo>>
         /\ IF AllDocsTruthy(task, ret)
            THEN /\ queue' = Documents(task, ret)
                 /\ pc' = "open"
                 /\ UNCHANGED <<result, outcome, reported>>
            ELSE /\ result' = MissingResult(task, result, ret)
                 /\ exit_json(result')
                 /\ UNCHANGED queue

\* allied_insurance_interface_program: call_api never returns None
response_allied ==
    /\ UNCHANGED <<dirs, exc, callNo>>
    /\ IF ~Truthy(ret.acs)
       THEN /\ fail_json(Msg("API call unsuccessful"), ret)
            /\ UNCHANGED <<queue, result>>
       ELSE IF AllDocsTruthy(task, ret)
       THEN /\ queue' = Documents(task, ret)
            /\ pc' = "open"
            /\ UNCHANGED <<result, outcome, reported>>
       ELSE /\ result' = MissingResult(task, result, ret)
            /\ exit_json(result')
            /\ UNCHANGED queue

\* process_window_object_data: no try block, no makedirs, no test of the
\* document before open()
response_payoff ==
    /\ UNCHANGED <<dirs, result, callNo>>
    /\ IF ret = PyNone
       THEN /\ uncaught(Exc("AttributeError", "NoneType has no attribute get"))
            /\ UNCHANGED queue
       ELSE IF ~Truthy(ret.acs)
       THEN /\ fail_json(Msg("API call unsuccessful"), ret)
            /\ UNCHANGED <<queue, exc>>
       ELSE /\ queue' = Documents(task, ret)
            /\ pc' = "open"
            /\ UNCHANGED <<outcome, reported, exc>>

\* get_advanced_selector_request: the envelope is the result
response_selector ==
    /\ UNCHANGED <<dirs, queue, callNo>>
    /\ IF ret = PyNone
       THEN /\ uncaught(Exc("AttributeError", "NoneType has no attribute get"))
            /\ UNCHANGED result
       ELSE IF ~Truthy(ret.acs)
       THEN /\ fail_json(Msg("API call unsuccessful"), ret)
            /\ UNCHANGED <<result, exc>>
       ELSE /\ result' = [result EXCEPT !.changed = FALSE, !.failed = FALSE,
                                       !.msg = Msg("API call successful."),
                                       !.api_response = ret]
            /\ exit_json(result')
            /\ UNCHANGED exc

\* create_metro_2_file_and_report: ["FilePath"] of the first envelope, then
\* the second call, then the redaction of the second envelope
response_metro2 ==
    /\ UNCHANGED <<dirs, queue>>
    /\ IF callNo = 1
       THEN IF ret.filePath
            THEN /\ callNo' = 2
                 /\ pc' = "start"
                 /\ UNCHANGED <<result, outcome, reported, exc>>
            ELSE /\ uncaught(Exc("KeyError", "FilePath"))
                 /\ UNCHANGED <<result, callNo>>
       ELSE /\ UNCHANGED callNo
            /\ IF ~Truthy(ret.acs)
               THEN /\ fail_json(Msg("API call unsuccessful"), ret)
                    /\ UNCHANGED <<result, exc>>
               ELSE IF ~ret.containers
               THEN /\ uncaught(Exc("KeyError", "Document"))
                    /\ UNCHANGED result
               ELSE /\ result' = [result EXCEPT
                                    !.changed = TRUE,
                                    !.msg = Msg("Credit Bureau Files Created"),
                                    !.api_response = Redact(ret)]
                    /\ exit_json(result')
                    /\ UNCHANGED exc

run_module_response ==
    /\ pc = "response"
    /\ CASE task \in {Trial, LateNotices} -> response_guarded
         [] task = Allied -> response_allied
         [] task = Payoff -> response_payoff
         [] task = Selector -> response_selector
         [] OTHER -> response_metro2
    /\ UNCHANGED <<peer, task, method, api_token, dest, summary_dest,
                   api_log_directory, faulted, files, dirs0, files0, log,
                   handlers, open_handles, requests, responses, ret, opened,
                   wrote>>

(***************************************************************************)
(* The Document Writer: decode, open(path, "wb"), write                    *)
(***************************************************************************)
\* the tasks that decode before they open the destination
DecodesBeforeOpen(t) == t \in {Trial, LateNotices, Allied}

\* b64decode, then open(): every failure is caught and reported
open_guarded(it) ==
    IF b64decode(it.b64) = DecodeError
    THEN /\ fail_json(Msg("failed to create file"), AbsentKey)
         /\ UNCHANGED <<files, opened, exc>>
    ELSE IF ~open_ok(it.path, dirs)
    THEN /\ fail_json(Msg("failed to create file"), AbsentKey)
         /\ UNCHANGED <<files, opened, exc>>
    ELSE /\ files' = put(files, it.path, <<>>)
         /\ opened' = opened \cup {normpath(it.path)}
         /\ pc' = "write"
         /\ UNCHANGED <<outcome, reported, exc>>

\* open() first, then payoff_resp["Document"]["DocumentBase64"] and
\* b64decode inside the with block: nothing is caught
open_payoff(it) ==
    IF ~open_ok(it.path, dirs)
    THEN /\ uncaught(Exc("FileNotFoundError", "open"))
         /\ UNCHANGED <<files, opened>>
    ELSE /\ files' = put(files, it.path, <<>>)
         /\ opened' = opened \cup {normpath(it.path)}
         /\ IF it.b64 = Absent
            THEN uncaught(Exc("KeyError", "Document"))
            ELSE IF b64decode(it.b64) = DecodeError
            THEN uncaught(Exc("binascii.Error", "Incorrect padding"))
            ELSE /\ pc' = "write"
                 /\ UNCHANGED <<outcome, reported, exc>>

open_dest ==
    /\ pc = "open"
    /\ IF DecodesBeforeOpen(task)
       THEN open_guarded(Head(queue))
       ELSE open_payoff(Head(queue))
    /\ UNCHANGED <<peer, task, method, api_token, dest, summary_dest,
                   api_log_directory, faulted, callNo, dirs, dirs0, files0,
                   log, handlers, open_handles, requests, responses, ret,
                   queue, wrote, result>>

\* what run_module sets once every document is written
WrittenResult(t, r, e) ==
    IF t = Payoff
    THEN [r EXCEPT !.msg = Msg("API call successful. File created"),
                   !.changed = FALSE, !.failed = FALSE, !.api_response = e]
    ELSE [r EXCEPT !.changed = TRUE, !.failed = FALSE,
                   !.msg = Msg("Wrote file"), !.api_response = e]

\* f.write(data) when the system lets only n bytes through before it fails
\* (device full, quota, I/O error): the file keeps what got through
write_fault(it, n) ==
    /\ files' = write(files, it.path, SubSeq(b64decode(it.b64), 1, n))
    /\ faulted' = faulted \cup {normpath(it.path)}
    /\ IF DecodesBeforeOpen(task)
       THEN \* OSError, caught by `except Exception`
            /\ fail_json(Msg("failed to create file"), AbsentKey)
            /\ UNCHANGED exc
       ELSE uncaught(Exc("OSError", "write"))
    /\ UNCHANGED <<wrote, queue, result>>

write_dest ==
    /\ pc = "write"
    /\ \E n \in 0..Len(b64decode(Head(queue).b64)) :
        IF n < Len(b64decode(Head(queue).b64))
        THEN write_fault(Head(queue), n)
        ELSE /\ files' = write(files, Head(queue).path,
                               b64decode(Head(queue).b64))
             /\ wrote' = wrote \cup {normpath(Head(queue).path)}
             /\ queue' = Tail(queue)
             /\ IF queue' = <<>>
                THEN /\ result' = WrittenResult(task, result, ret)
                     /\ exit_json(result')
                ELSE /\ pc' = "open"
                     /\ UNCHANGED <<result, outcome, reported>>
             /\ UNCHANGED <<exc, faulted>>
    /\ UNCHANGED <<peer, task, method, api_token, dest, summary_dest,
                   api_log_directory, callNo, dirs, dirs0, files0, log,
                   handlers, open_handles, requests, responses, ret, opened>>

Next ==
    \/ makedirs_dest
    \/ log_function_call_enter
    \/ call_api
    \/ log_function_call_exit
    \/ run_module_response
    \/ open_dest
    \/ write_dest

Spec == Init /\ [][Next]_vars

(***************************************************************************)
(* log_function_call invoked again and again in one process, as run_module *)
(* of create_metro_2_file_and_report invokes it twice in a row.  The       *)
(* wrapped callable is call_api in its two shapes: the lookup-table one of *)
(* get_advanced_selector_request (returns, or raises an Exception) and the *)
(* one of create_metro_2_file_and_report (returns, raises, or leaves       *)
(* through module.fail_json).  The caller takes whatever comes out of an   *)
(* invocation and makes the next one.                                      *)
(***************************************************************************)
\* the number of invocations made in a row
MaxCalls == 2

LoggerTasks == {Selector, Metro2}

InitLogger ==
    /\ Init
    /\ task \in LoggerTasks

next_invocation ==
    /\ pc \in {"response", "done"}
    /\ callNo < MaxCalls
    /\ callNo' = callNo + 1
    /\ pc' = "start"
    /\ exc' = NoExc
    /\ outcome' = "running"
    /\ reported' = NoReport
    /\ open_handles' = 0
    /\ UNCHANGED <<peer, task, method, api_token, dest, summary_dest,
                   api_log_directory, faulted, dirs, files, dirs0, files0,
                   log, handlers, requests, responses, ret, queue, opened,
                   wrote, result>>

NextLogger ==
    \/ log_function_call_enter
    \/ call_api
    \/ log_function_call_exit
    \/ next_invocation

SpecLogger == InitLogger /\ [][NextLogger]_vars

(***************************************************************************)
(* call_api handed any verb: the tasks as they are, but for the method     *)
(* argument, which is drawn from the supported verbs and others.           *)
(***************************************************************************)
Verbs == SupportedVerbs \cup {"patch", "POST", ""}

InitDispatch ==
    /\ Start(Verbs)
    /\ peer = NoPeer

SpecDispatch == InitDispatch /\ [][Next]_vars

(***************************************************************************)
(* Two invocations of get_trial_balance_report with the same dest at the   *)
(* same time (two plays, or two hosts delegating to one machine).  The     *)
(* tasks take no lock and write dest in place, so the steps of the two     *)
(* processes interleave freely.  The first invocation is modelled in full; *)
(* of the second, the peer, only its writer: it has its decoded txt_data   *)
(* in hand, and still has to open dest and to write.                       *)
(***************************************************************************)
\* the documents the peer may have decoded: "hi" and "hello"
PeerData == {b64decode(DocHi), b64decode(DocHello)}

InitRace ==
    /\ Start(TaskVerbs)
    /\ task = Trial
    /\ peer \in [pc : {"open"}, txt_data : PeerData]

\* the peer's os.makedirs(dirname(dest), exist_ok=True) and
\* open(dest, "wb"): the file is created or cut to zero bytes
peer_open ==
    /\ peer.pc = "open"
    /\ IF /\ makedirs_ok(dirname(dest), files)
          /\ open_ok(dest, makedirs(dirname(dest), dirs))
       THEN /\ dirs' = makedirs(dirname(dest), dirs)
            /\ files' = put(files, dest, <<>>)
            /\ peer' = [peer EXCEPT !.pc = "write"]
       ELSE /\ peer' = [peer EXCEPT !.pc = "failed"]
            /\ UNCHANGED <<dirs, files>>
    /\ UNCHANGED <<task, method, api_token, dest, summary_dest,
                   api_log_directory, pc, callNo, dirs0, files0, log,
                   handlers, open_handles, requests, responses, ret, exc,
                   queue, opened, wrote, faulted, result, outcome, reported>>

\* the peer's txt_file.write(txt_data), through its own file object
peer_write ==
    /\ peer.pc = "write"
    /\ files' = write(files, dest, peer.txt_data)
    /\ peer' = [peer EXCEPT !.pc = "closed"]
    /\ UNCHANGED <<task, method, api_token, dest, summary_dest,
                   api_log_directory, pc, callNo, dirs, dirs0, files0, log,
                   handlers, open_handles, requests, responses, ret, exc,
                   queue, opened, wrote, faulted, result, outcome, reported>>

NextRace ==
    \/ log_function_call_enter
    \/ call_api
    \/ log_function_call_exit
    \/ run_module_response
    \/ open_dest
    \/ write_dest
    \/ peer_open
    \/ peer_write

SpecRace == InitRace /\ [][NextRace]_vars

(***************************************************************************)
(* Vocabulary of the properties                                           *)
(***************************************************************************)
Done == pc = "done"

Answered == responses # <<>>

LastResponse == responses[Len(responses)]

\* the process reported a dict through exit_json or fail_json
Reported == reported # NoReport

\* the base64 text is in the alphabet, correctly padded, and decodes
ValidBase64(d) ==
    /\ DocTruthy(d)
    /\ \A i \in 1..Len(d) : d[i] <= BASE64_PAD
    /\ b64decode(d) # DecodeError

\* the last answer is HTTP 200 with ApiCallSuccessful true
SuccessfulEnvelope ==
    /\ Answered
    /\ LastResponse.status = HTTP_OK
    /\ LastResponse.body.acs = "true"

\* the documents of the last envelope, with their destinations
Expected == Documents(task, LastResponse.body)

\* the content of the file at p, or no file
Content(fs_files, p) ==
    IF normpath(p) \in DOMAIN fs_files THEN fs_files[normpath(p)] ELSE Absent

\* the file at p is as it was when the invocation started
Untouched(p) == Content(files, p) = Content(files0, p)

\* the filesystem the invocation started in lets every destination be
\* written: the parent directories exist
ParentsExisted ==
    \A i \in 1..Len(Expected) : normpath(dirname(Expected[i].path)) \in dirs0

(***************************************************************************)
(* C1: in every task, when an envelope returned by the gateway does not    *)
(* carry ApiCallSuccessful = true (absent, false, null, any other value),  *)
(* no destination file is opened and the task ends failed, changed=false.  *)
(* A process that dies of an uncaught exception is counted here as ending  *)
(* failed; what is refuted is a reported success.                          *)
(***************************************************************************)
C1_UnsuccessfulEnvelopeFails ==
    (\E i \in 1..Len(responses) : responses[i].body.acs # "true")
        => /\ opened = {}
           /\ (Done /\ Reported) => (reported.failed /\ ~reported.changed)

(***************************************************************************)
(* C2: in every task, when the gateway answers with a status other than    *)
(* 200, call_api fails with an error carrying the status code and the raw  *)
(* response text, and returns no value to its caller.                      *)
(***************************************************************************)
C2_Non200Fails ==
    (Answered /\ LastResponse.status # HTTP_OK)
        => /\ Reported
           /\ reported.failed
           /\ reported.msg.status = LastResponse.status
           /\ reported.msg.body = LastResponse.body

(***************************************************************************)
(* C3: every invocation that got an answer from the gateway ends by        *)
(* reporting a result through exit_json or fail_json, never with an        *)
(* uncaught exception.                                                     *)
(***************************************************************************)
C3_AlwaysReports ==
    (Done /\ Answered) => (outcome \in {"exit_json", "fail_json"} /\ Reported)

(***************************************************************************)
(* C4 as claimed: a reported changed=true implies that the task itself     *)
(* wrote at least one destination file during the invocation.              *)
(***************************************************************************)
C4_ChangedImpliesWrote ==
    (Reported /\ reported.changed) => wrote # {}

(***************************************************************************)
(* C4 as amended: in every task but create_metro_2_file_and_report a       *)
(* reported changed=true implies that the task wrote a destination file;   *)
(* create_metro_2_file_and_report writes no file and reports changed=true  *)
(* only when its second call, CreateMetro2FileAndReport, was answered 200  *)
(* with a truthy ApiCallSuccessful.                                        *)
(***************************************************************************)
C4_ChangedImpliesWroteOrMetro2 ==
    (Reported /\ reported.changed)
        => IF task = Metro2
           THEN /\ wrote = {}
                /\ Len(requests) = 2
                /\ LastResponse.status = HTTP_OK
                /\ Truthy(LastResponse.body.acs)
           ELSE wrote # {}

\* a task that writes a file has reported changed=true
C4_Witness ==
    /\ Done
    /\ Reported
    /\ reported.changed
    /\ task # Metro2
    /\ wrote # {}

(***************************************************************************)
(* C5: for every file-producing task, when the envelope has                *)
(* ApiCallSuccessful true and a non-empty valid base64 document at the     *)
(* task's field path (and the destination's directory exists, and the      *)
(* system cuts no write short), the destination file holds the decoded     *)
(* bytes and changed=true is reported.                                     *)
(***************************************************************************)
C5_ValidDocumentWrittenAndChanged ==
    (/\ Done
     /\ task \in FileProducing
     /\ SuccessfulEnvelope
     /\ \A i \in 1..Len(Expected) : ValidBase64(Expected[i].b64)
     /\ ParentsExisted
     /\ faulted = {})
        => /\ \A i \in 1..Len(Expected) :
                Content(files, Expected[i].path) = b64decode(Expected[i].b64)
           /\ Reported
           /\ reported.changed

(***************************************************************************)
(* C6: for every file-producing task, when the envelope is successful but  *)
(* a document field is absent or empty, no destination file is created or  *)
(* truncated and the outcome is reported to the task's caller.             *)
(***************************************************************************)
C6_MissingDocumentLeavesFile ==
    (/\ Done
     /\ task \in FileProducing
     /\ SuccessfulEnvelope
     /\ \E i \in 1..Len(Expected) : ~DocTruthy(Expected[i].b64))
        => /\ \A i \in 1..Len(Expected) : Untouched(Expected[i].path)
           /\ opened = {}
           /\ Reported

(***************************************************************************)
(* C7: for every file-producing task, when the (successful) envelope lacks *)
(* the document field, nothing changes under the destination: neither the  *)
(* destination file nor any parent directory of it exists unless it        *)
(* existed before.                                                         *)
(***************************************************************************)
C7_MissingDocumentNoFsChange ==
    (/\ Done
     /\ task \in FileProducing
     /\ SuccessfulEnvelope
     /\ \E i \in 1..Len(Expected) : Expected[i].b64 = Absent)
        => \A i \in 1..Len(Expected) :
              /\ Untouched(Expected[i].path)
              /\ Prefixes(normpath(dirname(Expected[i].path))) \cap dirs
                    \subseteq dirs0

(***************************************************************************)
(* C8: for every file-producing task, given a destination whose parent     *)
(* directories do not exist (and can be made) and a successful envelope    *)
(* with a valid document, the task makes the directories and writes the    *)
(* file at dest (the system cutting no write short).                       *)
(***************************************************************************)
C8_CreatesParentsThenWrites ==
    (/\ Done
     /\ task \in FileProducing
     /\ SuccessfulEnvelope
     /\ \A i \in 1..Len(Expected) : ValidBase64(Expected[i].b64)
     /\ normpath(dirname(Expected[1].path)) \notin dirs0
     /\ makedirs_ok(dirname(Expected[1].path), files0)
     /\ faulted = {})
        => /\ normpath(dirname(Expected[1].path)) \in dirs
           /\ Content(files, Expected[1].path) = b64decode(Expected[1].b64)

(***************************************************************************)
(* C9: in run_late_notices_report the missing parent directories of        *)
(* summary_dest are made before the summary is written, whether or not     *)
(* summary_dest shares its directory with dest (the system cutting no      *)
(* write short).                                                           *)
(***************************************************************************)
C9_SummaryParentsCreated ==
    (/\ Done
     /\ task = LateNotices
     /\ SuccessfulEnvelope
     /\ \A i \in 1..Len(Expected) : ValidBase64(Expected[i].b64)
     /\ makedirs_ok(dirname(dest), files0)
     /\ makedirs_ok(dirname(summary_dest), files0)
     /\ faulted = {})
        => /\ normpath(dirname(summary_dest)) \in dirs
           /\ Content(files, summary_dest) = b64decode(Expected[2].b64)

(***************************************************************************)
(* C10: whenever the callable wrapped by log_function_call fails, an ERROR *)
(* record with the failure is appended to api_calls.log, and then the same *)
(* failure leaves log_function_call: it never returns normally.            *)
(***************************************************************************)
C10_FailureLoggedThenRaised ==
    [][(pc = "log_exit" /\ exc # NoExc)
          => /\ Len(log') = Len(log) + 1
             /\ log'[Len(log')].level = "ERROR"
             /\ log'[Len(log')].value = exc
             /\ exc' = exc
             /\ pc' = "done"
             /\ outcome' \in {"uncaught", "fail_json"}]_vars

(***************************************************************************)
(* C11: in every task that uses the Audit Logger, every gateway failure    *)
(* (a status other than 200, a transport error) has left a failure record  *)
(* in api_calls.log by the time the task ends; it is never recorded only   *)
(* as a normal result, or not at all.  Only invocations whose log could be *)
(* opened are looked at.                                                   *)
(***************************************************************************)
GatewayFailed ==
    \/ Len(requests) > Len(responses)
    \/ Answered /\ LastResponse.status # HTTP_OK

C11_GatewayFailureLogged ==
    (Done /\ UsesLogger(task) /\ log # <<>> /\ GatewayFailed)
        => \E i \in 1..Len(log) :
              log[i].level = "ERROR" /\ log[i].call = callNo

(***************************************************************************)
(* C12: after N log_function_call invocations in a row against one log     *)
(* directory, whatever mix of returning and failing callables, the log     *)
(* holds exactly N before-records ("Calling") and exactly N outcome        *)
(* records ("Result" or "Exception occurred"), one of each per invocation, *)
(* the before-record first.  Only runs whose log could be opened are       *)
(* looked at.                                                              *)
(***************************************************************************)
IsBefore(rec) == rec.text = "Calling"

IsOutcome(rec) == rec.text \in {"Result", "Exception occurred"}

\* the positions in the log of the records of invocation k that satisfy P
RecordsOf(k, P(_)) == {i \in 1..Len(log) : log[i].call = k /\ P(log[i])}

\* no invocation is in progress
BetweenInvocations == pc \in {"response", "done"}

C12_OneBeforeOneOutcomePerCall ==
    (BetweenInvocations /\ log # <<>>)
        => \A k \in 1..callNo :
              /\ Cardinality(RecordsOf(k, IsBefore)) = 1
              /\ Cardinality(RecordsOf(k, IsOutcome)) = 1
              /\ \A i \in RecordsOf(k, IsBefore) :
                    \A j \in RecordsOf(k, IsOutcome) : i < j

(***************************************************************************)
(* C13: the number of handlers attached to the logger is the same after    *)
(* each log_function_call invocation as before it, on every exit path      *)
(* (return, exception, the process exit of fail_json): none is attached    *)
(* outside an invocation and exactly one during it, however many           *)
(* invocations came before.                                                *)
(***************************************************************************)
C13_HandlerCountConstant ==
    handlers = IF UsesLogger(task) /\ pc \in {"call", "log_exit"} THEN 1 ELSE 0

\* a second invocation left by fail_json's exit, after a first one left by
\* an exception
C13_Witness ==
    /\ pc = "done"
    /\ callNo = 2
    /\ exc = SystemExit
    /\ \E i \in 1..Len(log) : log[i].call = 1 /\ log[i].level = "ERROR"
    /\ \E i \in 1..Len(log) : log[i].call = 2 /\ IsBefore(log[i])
    /\ handlers = 0

(***************************************************************************)
(* C14: when log_function_call has returned or raised, the file handle it  *)
(* opened on api_calls.log is closed: the process holds no open handle on  *)
(* the log outside an invocation.                                          *)
(***************************************************************************)
C14_HandleReleased ==
    (UsesLogger(task) /\ BetweenInvocations) => open_handles = 0

(***************************************************************************)
(* C15: in all six tasks every request sent to the gateway goes through    *)
(* the Audit Logger: the before-record of the call is in the log by the    *)
(* time the request is sent.                                               *)
(***************************************************************************)
C15_BeforeRecordPrecedesRequest ==
    \A k \in 1..Len(requests) : RecordsOf(k, IsBefore) # {}

(***************************************************************************)
(* C16: for a log directory that does not exist yet, written with or       *)
(* without a trailing "/", log_function_call makes the directory before it *)
(* opens api_calls.log in it, so the log is opened and written.            *)
(***************************************************************************)
C16_LogDirectoryCreated ==
    (/\ UsesLogger(task)
     /\ api_log_directory # LogDirOmitted
     /\ normpath(api_log_directory) \notin dirs0
     /\ makedirs_ok(api_log_directory, files0)
     /\ pc # "start")
        => /\ normpath(api_log_directory) \in dirs
           /\ log # <<>>

(***************************************************************************)
(* C17: for a method outside the four supported verbs call_api fails       *)
(* before any request is made, in the lookup-table variant and in the      *)
(* if/elif variant alike: no request is sent, no answer received, no value *)
(* returned to the caller, and the task ends failed.                       *)
(***************************************************************************)
C17_UnsupportedVerbNoRequest ==
    (method \notin SupportedVerbs)
        => /\ requests = <<>>
           /\ responses = <<>>
           /\ pc \notin {"response", "open", "write"}
           /\ Done => outcome \in {"uncaught", "fail_json"}

\* call_api was reached with an unsupported verb and failed: by KeyError in
\* the lookup, or by fail_json at the end of the if/elif chain
C17_Witness ==
    /\ method \notin SupportedVerbs
    /\ Done
    /\ \/ exc = Exc("KeyError", method)
       \/ Reported /\ reported.msg = Msg("Invalid API method")

(***************************************************************************)
(* C18: for every write of a document (one that decodes) to a destination, *)
(* once the task has ended either the destination holds the whole of the   *)
(* decoded bytes, or it is exactly as it was before and an error was       *)
(* reported; it is never left truncated or partly written.                 *)
(***************************************************************************)
ErrorReported ==
    \/ outcome \in {"fail_json", "uncaught"}
    \/ Reported /\ reported.failed

C18_AllOrNothing ==
    Done =>
        \A i \in 1..Len(responses) :
            \A j \in 1..Len(Documents(task, responses[i].body)) :
                LET it == Documents(task, responses[i].body)[j] IN
                (/\ it.b64 # Absent
                 /\ b64decode(it.b64) # DecodeError
                 /\ normpath(it.path) \in opened)
                    => \/ Content(files, it.path) = b64decode(it.b64)
                       \/ Untouched(it.path) /\ ErrorReported

(***************************************************************************)
(* C19: when a document field of the (successful) envelope holds a string  *)
(* that base64 decoding rejects, the task ends with an error and the       *)
(* destination of that document is as it was before: the decoding comes    *)
(* before the destination is opened.                                       *)
(***************************************************************************)
Rejected(d) == DocTruthy(d) /\ b64decode(d) = DecodeError

C19_DecodeErrorLeavesFile ==
    (Done /\ task \in FileProducing /\ SuccessfulEnvelope)
        => \A i \in 1..Len(Expected) :
              Rejected(Expected[i].b64)
                  => /\ ErrorReported
                     /\ Untouched(Expected[i].path)
                     /\ normpath(Expected[i].path) \notin opened

(***************************************************************************)
(* C20: after a document has been materialized the destination file holds  *)
(* exactly the bytes that were base64-encoded in the envelope, whatever    *)
(* the file held before, longer or shorter: the write replaces, it never   *)
(* appends.                                                                *)
(***************************************************************************)
\* base64.b64encode, as the gateway applies it to the bytes of a document
RECURSIVE b64encode(_)
b64encode(b) ==
    IF Len(b) = 0 THEN <<>>
    ELSE IF Len(b) = 1
    THEN <<b[1] \div 4, (b[1] % 4) * 16, BASE64_PAD, BASE64_PAD>>
    ELSE IF Len(b) = 2
    THEN <<b[1] \div 4, (b[1] % 4) * 16 + b[2] \div 16, (b[2] % 16) * 4,
           BASE64_PAD>>
    ELSE <<b[1] \div 4, (b[1] % 4) * 16 + b[2] \div 16,
           (b[2] % 16) * 4 + b[3] \div 64, b[3] % 64>>
         \o b64encode(SubSeq(b, 4, Len(b)))

\* b"hi" and b"hello"
Payloads == {<<104, 105>>, <<104, 101, 108, 108, 111>>}

C20_WrittenEqualsEncodedBytes ==
    wrote # {} =>
        \A i \in 1..Len(Expected) :
            normpath(Expected[i].path) \in wrote
                => /\ Content(files, Expected[i].path)
                        = b64decode(Expected[i].b64)
                   /\ \A b \in Payloads :
                         b64encode(b) = Expected[i].b64
                             => Content(files, Expected[i].path) = b

\* a task has ended well after writing, over a longer file left by an
\* earlier run, a document that is the encoding of known bytes
C20_Witness ==
    /\ Done
    /\ outcome = "exit_json"
    /\ \E i \in 1..Len(Expected) :
          /\ normpath(Expected[i].path) \in wrote
          /\ Content(files0, Expected[i].path) = OldContent
          /\ \E b \in Payloads :
                /\ b64encode(b) = Expected[i].b64
                /\ Len(b) < OldLen
                /\ Content(files, Expected[i].path) = b

(***************************************************************************)
(* C21: for every gateway call made through log_function_call, the records *)
(* written to api_calls.log before the request is sent include the token   *)
(* the task was given, in plaintext.                                       *)
(***************************************************************************)
\* the log shows the token among the records of call k
TokenLogged(k) ==
    \E i \in 1..Len(log) : log[i].call = k /\ log[i].token = api_token

C21_TokenInLogBeforeCall ==
    UsesLogger(task)
        => /\ \A k \in 1..Len(requests) : TokenLogged(k)
           /\ pc = "call" => TokenLogged(callNo)

\* both calls of create_metro_2_file_and_report were sent, the token logged
\* before each
C21_Witness ==
    /\ task = Metro2
    /\ Len(requests) = 2
    /\ TokenLogged(1)
    /\ TokenLogged(2)

(***************************************************************************)
(* C22 as claimed: each task invocation (that ends well) has issued        *)
(* exactly one gateway request and opened at most one destination file.    *)
(***************************************************************************)
C22_OneRequestOneWrite ==
    (Done /\ outcome = "exit_json")
        => /\ Len(requests) = 1
           /\ Cardinality(opened) <= 1

(***************************************************************************)
(* C22 as amended: an invocation issues at most one gateway request, but   *)
(* create_metro_2_file_and_report at most two (GetMsCompanyInformation,    *)
(* then CreateMetro2FileAndReport); it opens at most one destination file, *)
(* but run_late_notices_report at most two (dest, then summary_dest), and  *)
(* create_metro_2_file_and_report none.  Everything is in sequence: a      *)
(* destination is opened only after the single request was answered, and   *)
(* an invocation that ends well has issued a request.                      *)
(***************************************************************************)
MaxRequests(t) == IF t = Metro2 THEN 2 ELSE 1

MaxWrites(t) == IF t = LateNotices THEN 2 ELSE IF t = Metro2 THEN 0 ELSE 1

C22_BoundedRequestsThenWrites ==
    /\ Len(requests) <= MaxRequests(task)
    /\ Cardinality(opened) <= MaxWrites(task)
    /\ opened # {}
          => /\ pc \in {"open", "write", "done"}
             /\ Len(requests) = 1
             /\ Len(responses) = 1
    /\ (Done /\ outcome = "exit_json") => Len(requests) >= 1
    /\ \A k \in 1..Len(requests) : requests[k] = Endpoint(task, k)

\* run_late_notices_report has ended well: one request, then two files
C22_Witness ==
    /\ task = LateNotices
    /\ Done
    /\ outcome = "exit_json"
    /\ Len(requests) = 1
    /\ Cardinality(wrote) = 2

(***************************************************************************)
(* C23: when two invocations have written the same dest at the same time   *)
(* and both have finished without a write fault, dest holds the complete   *)
(* document of one of the two, never a mixture of both.                    *)
(***************************************************************************)
C23_LastWriterWins ==
    (/\ Done
     /\ outcome = "exit_json"
     /\ wrote # {}
     /\ faulted = {}
     /\ peer.pc = "closed")
        => Content(files, dest) \in {b64decode(Expected[1].b64), peer.txt_data}

(***************************************************************************)
(* C24: create_metro_2_file_and_report sends its second request,           *)
(* CreateMetro2FileAndReport, only after GetMsCompanyInformation was       *)
(* answered with an envelope whose ApiCallSuccessful is truthy; after an   *)
(* unsuccessful first envelope the task ends failed, with one request.     *)
(***************************************************************************)
FirstEnvelopeSuccessful ==
    /\ responses # <<>>
    /\ responses[1].status = HTTP_OK
    /\ Truthy(responses[1].body.acs)

C24_SecondRequestAfterSuccess ==
    task = Metro2
        => /\ Len(requests) = 2 => FirstEnvelopeSuccessful
           /\ (Done /\ responses # <<>> /\ ~FirstEnvelopeSuccessful)
                 => /\ Len(requests) = 1
                    /\ ErrorReported

(***************************************************************************)
(* C25: run_late_notices_report commits its two files together.  When an   *)
(* invocation has ended (no write cut short by the system, the parent of   *)
(* summary_dest being there from the start), either dest and summary_dest  *)
(* both hold this invocation's documents and changed=true is reported, or  *)
(* both are as they were and no changed=true is reported.                  *)
(***************************************************************************)
BothCommitted ==
    /\ Reported
    /\ reported.changed
    /\ Content(files, dest) = b64decode(LastResponse.body.doc)
    /\ Content(files, summary_dest) = b64decode(LastResponse.body.doc2)

NeitherModified ==
    /\ Reported => ~reported.changed
    /\ Untouched(dest)
    /\ Untouched(summary_dest)

C25_BothFilesOrNeither ==
    (/\ task = LateNotices
     /\ Done
     /\ faulted = {}
     /\ normpath(dirname(summary_dest)) \in dirs0)
        => \/ Answered /\ BothCommitted
           \/ NeitherModified

(***************************************************************************)
(* C26: whatever create_metro_2_file_and_report reports, on success or as  *)
(* "API call unsuccessful", an envelope in api_response has its document   *)
(* (and the Data lists redacted along with it) replaced by the redaction   *)
(* marker: the gateway's values are never in the report.                   *)
(***************************************************************************)
CarriesEnvelope == Reported /\ reported.api_response.kind = "dict"

C26_ReportedEnvelopeRedacted ==
    (task = Metro2 /\ CarriesEnvelope)
        => reported.api_response.doc \in {REDACTED, Absent}

(***************************************************************************)
(* C27: in the tasks that take api_log_directory (required: false), an     *)
(* invocation that leaves it out has, when it has ended, sent its gateway  *)
(* request and reported a result.                                          *)
(***************************************************************************)
C27_OmittedLogDirStillCalls ==
    (/\ UsesLogger(task)
     /\ api_log_directory = LogDirOmitted
     /\ Done)
        => /\ requests # <<>>
           /\ Reported

====
